---- MODULE Spec2Model ----
(***************************************************************************)
(* Model of codesm_core's diff/patch core (core/src/diff.rs):              *)
(*   diff_files(old, new, _filename) -> String                             *)
(*   apply_edit(content, old_content, new_content) -> PyResult<String>     *)
(* A text is a sequence of one-character strings.  diff_files is modelled  *)
(* down to the calls it makes into the `similar` crate                     *)
(* (TextDiff::from_lines, grouped_ops, iter_changes).                      *)
(***************************************************************************)
EXTENDS Integers, Sequences, FiniteSets, TLC

VARIABLES pc, fn, old, new, diff, groups, result, content, old_content, new_content, ret

vars == <<pc, fn, old, new, diff, groups, result, content, old_content, new_content, ret>>

\* ------------------------------------------------------------------ bounds
\* longest text (in lines) of the exhaustive family of diff inputs
MaxLines == 4
\* number of lines of the numbered-lines family of diff inputs
MaxGroupLines == 17
\* longest apply_edit content, in characters
MaxContentLen == 4
\* longest apply_edit old_content / new_content, in characters
MaxPatLen == 2

\* ------------------------------------------------------------ text helpers
NL == "\n"

Min(a, b) == IF a < b THEN a ELSE b
Max(a, b) == IF a < b THEN b ELSE a

\* s[from..to-1] with 0-based offsets, as Rust's &s[from..to]
Slice(s, from, to) == SubSeq(s, from + 1, to)

RECURSIVE Concat(_)
Concat(ss) == IF ss = <<>> THEN <<>> ELSE Head(ss) \o Concat(Tail(ss))

\* all sequences over S of length 0..n
SeqsUpTo(S, n) == UNION {[1..k -> S] : k \in 0..n}

\* ------------------------------------------------------------- apply_edit
\* mutant of MatchOffsets: the empty pattern matches nowhere
MatchOffsetsNonEmpty(s, pat) ==
    {i \in 0..(Len(s) - Len(pat)) : pat # <<>> /\ Slice(s, i, i + Len(pat)) = pat}

\* str::contains / str::find: offsets at which pat occurs in s
MatchOffsets(s, pat) ==
    {i \in 0..(Len(s) - Len(pat)) : Slice(s, i, i + Len(pat)) = pat}

Contains(s, pat) == MatchOffsets(s, pat) # {}

\* mutant of FirstOffset: the last match instead of the first
LastOffset(s, pat) ==
    CHOOSE i \in MatchOffsets(s, pat) : \A j \in MatchOffsets(s, pat) : j <= i

FirstOffset(s, pat) ==
    CHOOSE i \in MatchOffsets(s, pat) : \A j \in MatchOffsets(s, pat) : i <= j

\* str::replacen(pat, to, 1): the first match is replaced, the rest is copied
Replacen1(s, pat, to) ==
    IF ~Contains(s, pat) THEN s
    ELSE LET i == FirstOffset(s, pat)
         IN Slice(s, 0, i) \o to \o Slice(s, i + Len(pat), Len(s))

NotFoundMsg == "Could not find content to replace"

ErrResult == [tag |-> "Err", exc |-> "PyValueError", msg |-> NotFoundMsg, value |-> <<>>]

OkResult(v) == [tag |-> "Ok", exc |-> "", msg |-> "", value |-> v]

\* mutant of apply_edit: a missing old_content leaves the text as it is
apply_edit_lenient(c, o, n) == OkResult(Replacen1(c, o, n))

apply_edit(c, o, n) ==
    IF ~Contains(c, o) THEN ErrResult
    ELSE OkResult(Replacen1(c, o, n))

\* --------------------------------------------------------- Line Sequencer
\* TextDiff::from_lines splits both texts with tokenize_lines: every line keeps
\* its terminator, a final unterminated line is a line of its own, the empty
\* text has no line.  ("\n" is the only terminator of the texts modelled.)
RECURSIVE TokenizeFrom(_, _, _)
TokenizeFrom(text, last_pos, idx) ==
    IF idx >= Len(text)
    THEN IF last_pos < Len(text) THEN <<Slice(text, last_pos, Len(text))>> ELSE <<>>
    ELSE IF text[idx + 1] = NL
         THEN <<Slice(text, last_pos, idx + 1)>> \o TokenizeFrom(text, idx + 1, idx + 1)
         ELSE TokenizeFrom(text, last_pos, idx + 1)

tokenize_lines(text) == TokenizeFrom(text, 0, 0)

\* ------------------------------------------------------- Alignment Engine
\* The repository holds only the call TextDiff::from_lines(old, new); what the
\* call computes is the similar crate's default pipeline (Myers without a
\* deadline, then the Compact and Replace hooks), which the definitions below
\* follow step by step.
\* DiffOp of the similar crate; an Equal op has old_len = new_len = len.
EqualOp(oi, ni, len) ==
    [tag |-> "Equal", old_index |-> oi, old_len |-> len, new_index |-> ni, new_len |-> len]
DeleteOp(oi, olen, ni) ==
    [tag |-> "Delete", old_index |-> oi, old_len |-> olen, new_index |-> ni, new_len |-> 0]
InsertOp(oi, ni, nlen) ==
    [tag |-> "Insert", old_index |-> oi, old_len |-> 0, new_index |-> ni, new_len |-> nlen]
ReplaceOp(oi, olen, ni, nlen) ==
    [tag |-> "Replace", old_index |-> oi, old_len |-> olen, new_index |-> ni, new_len |-> nlen]

old_end(o) == o.old_index + o.old_len
new_end(o) == o.new_index + o.new_len

\* utils::common_prefix_len / common_suffix_len over two slices
common_prefix_len(a, b) ==
    LET c == {i \in 0..Min(Len(a), Len(b)) : \A j \in 1..i : a[j] = b[j]}
    IN CHOOSE i \in c : \A j \in c : j <= i

common_suffix_len(a, b) ==
    LET c == {i \in 0..Min(Len(a), Len(b)) :
                 \A j \in 0..(i - 1) : a[Len(a) - j] = b[Len(b) - j]}
    IN CHOOSE i \in c : \A j \in c : j <= i

\* myers::max_d and the V vectors (indexed -max_d .. max_d-1, zero-filled)
max_d(len1, len2) == ((len1 + len2 + 1) \div 2) + 1

NewV(md) == [k \in (0 - md)..(md - 1) |-> 0]

Abs(i) == IF i < 0 THEN 0 - i ELSE i

\* myers::find_middle_snake on the slices a (old) and b (new): the d loop with
\* its forward ("F") and backward ("B") k loops, k running from d down to -d by
\* two.  Yields the start of the middle snake relative to the slices, and the
\* V vectors as the search leaves them.
RECURSIVE MiddleSnake(_, _, _, _, _, _, _, _)
MiddleSnake(a, b, dmax, d, k, phase, vf, vb) ==
    LET n == Len(a)
        m == Len(b)
        delta == n - m
        odd == (delta % 2) = 1
    IN
    IF d >= dmax THEN [found |-> FALSE, x |-> 0, y |-> 0, vf |-> vf, vb |-> vb]
    ELSE IF k < 0 - d
    THEN IF phase = "F" THEN MiddleSnake(a, b, dmax, d, d, "B", vf, vb)
                        ELSE MiddleSnake(a, b, dmax, d + 1, d + 1, "F", vf, vb)
    ELSE IF phase = "F"
    THEN LET x0 == IF k = 0 - d \/ (k # d /\ vf[k - 1] < vf[k + 1])
                   THEN vf[k + 1] ELSE vf[k - 1] + 1
             y0 == x0 - k
             x == IF x0 < n /\ y0 >= 0 /\ y0 < m
                  THEN x0 + common_prefix_len(Slice(a, x0, n), Slice(b, y0, m))
                  ELSE x0
             vf2 == [vf EXCEPT ![k] = x]
         IN IF odd /\ Abs(k - delta) <= d - 1 /\ vf2[k] + vb[0 - (k - delta)] >= n
            THEN [found |-> TRUE, x |-> x0, y |-> y0, vf |-> vf2, vb |-> vb]
            ELSE MiddleSnake(a, b, dmax, d, k - 2, "F", vf2, vb)
    ELSE LET x0 == IF k = 0 - d \/ (k # d /\ vb[k - 1] < vb[k + 1])
                   THEN vb[k + 1] ELSE vb[k - 1] + 1
             y0 == x0 - k
             adv == IF x0 < n /\ y0 >= 0 /\ y0 < m
                    THEN common_suffix_len(Slice(a, 0, n - x0), Slice(b, 0, m - y0))
                    ELSE 0
             x == x0 + adv
             y == y0 + adv
             vb2 == [vb EXCEPT ![k] = x]
         IN IF ~odd /\ Abs(k - delta) <= d /\ vb2[k] + vf[0 - (k - delta)] >= n
            THEN [found |-> TRUE, x |-> n - x, y |-> m - y, vf |-> vf, vb |-> vb2]
            ELSE MiddleSnake(a, b, dmax, d, k - 2, "B", vf, vb2)

\* mutant of find_middle_snake: the search gives up at once, as under an
\* expired deadline
find_no_snake(a, b, vf, vb) == [found |-> FALSE, x |-> 0, y |-> 0, vf |-> vf, vb |-> vb]

find_middle_snake(a, b, vf, vb) ==
    MiddleSnake(a, b, max_d(Len(a), Len(b)), 0, 0, "F",
                [vf EXCEPT ![1] = 0], [vb EXCEPT ![1] = 0])

\* myers::conquer on old[os..oe) and new[ns..ne): strips the common prefix and
\* suffix, emits one Delete or one Insert when a side is empty, otherwise
\* splits at the middle snake and recurses on both halves.  vf and vb are the
\* same two vectors in every recursive call.
RECURSIVE conquer(_, _, _, _, _, _, _, _)
conquer(a, b, os, oe, ns, ne, vf, vb) ==
    LET pre  == common_prefix_len(Slice(a, os, oe), Slice(b, ns, ne))
        os1  == os + pre
        ns1  == ns + pre
        suf  == common_suffix_len(Slice(a, os1, oe), Slice(b, ns1, ne))
        oe1  == oe - suf
        ne1  == ne - suf
        head == IF pre > 0 THEN <<EqualOp(os, ns, pre)>> ELSE <<>>
        tail == IF suf > 0 THEN <<EqualOp(oe1, ne1, suf)>> ELSE <<>>
    IN
    IF os1 >= oe1 /\ ns1 >= ne1
    THEN [ops |-> head \o tail, vf |-> vf, vb |-> vb]
    ELSE IF ns1 >= ne1
    THEN [ops |-> head \o <<DeleteOp(os1, oe1 - os1, ns1)>> \o tail, vf |-> vf, vb |-> vb]
    ELSE IF os1 >= oe1
    THEN [ops |-> head \o <<InsertOp(os1, ns1, ne1 - ns1)>> \o tail, vf |-> vf, vb |-> vb]
    ELSE LET ms == find_middle_snake(Slice(a, os1, oe1), Slice(b, ns1, ne1), vf, vb)
         IN IF ms.found
            THEN LET xs == ms.x + os1
                     ys == ms.y + ns1
                     l  == conquer(a, b, os1, xs, ns1, ys, ms.vf, ms.vb)
                     r  == conquer(a, b, xs, oe1, ys, ne1, l.vf, l.vb)
                 IN [ops |-> head \o l.ops \o r.ops \o tail, vf |-> r.vf, vb |-> r.vb]
            ELSE [ops |-> head \o <<DeleteOp(os1, oe1 - os1, ns1),
                                    InsertOp(os1, ns1, ne1 - ns1)>> \o tail,
                  vf |-> ms.vf, vb |-> ms.vb]

\* myers::diff_deadline without a deadline: the ops handed to the hook
myers_diff(a, b) ==
    conquer(a, b, 0, Len(a), 0, Len(b),
            NewV(max_d(Len(a), Len(b))), NewV(max_d(Len(a), Len(b)))).ops


\* ------------------------------------------------- Compact and Replace hooks
\* capture_diff_deadline wraps the capture in Compact(Replace(Capture)).
\* Compact::finish runs cleanup_diff_ops over the ops of myers_diff: every Delete
\* and then every Insert is shifted up and then down across the neighbouring
\* Equal ops as far as the lines allow, merging with the edits it runs into.
\* ops are indexed from 0 as in the crate: At(ops, p) is ops[p].
At(ops, p) == ops[p + 1]

RemoveAt(ops, p) == Slice(ops, 0, p) \o Slice(ops, p + 1, Len(ops))

InsertAt(ops, p, e) == Slice(ops, 0, p) \o <<e>> \o Slice(ops, p, Len(ops))

SetAt(ops, p, e) == [ops EXCEPT ![p + 1] = e]

\* DiffOp::adjust: the offset and length of the side(s) the op owns
Adjust(o, doff, dlen) ==
    IF o.tag = "Equal"
    THEN [o EXCEPT !.old_index = @ + doff, !.new_index = @ + doff,
                   !.old_len = @ + dlen, !.new_len = @ + dlen]
    ELSE IF o.tag = "Delete"
    THEN [o EXCEPT !.old_index = @ + doff, !.old_len = @ + dlen]
    ELSE [o EXCEPT !.new_index = @ + doff, !.new_len = @ + dlen]

shift_left(o, k)   == Adjust(o, 0 - k, 0)
shift_right(o, k)  == Adjust(o, k, 0)
grow_left(o, k)    == Adjust(o, 0 - k, k)
grow_right(o, k)   == Adjust(o, 0, k)
shrink_left(o, k)  == Adjust(o, 0, 0 - k)
shrink_right(o, k) == Adjust(o, k, 0 - k)

is_empty(o) == o.old_len = 0 /\ o.new_len = 0

OldLines(a, o) == Slice(a, o.old_index, old_end(o))
NewLines(b, o) == Slice(b, o.new_index, new_end(o))

\* the lines an edit op spans, on the side it owns
EditLines(a, b, o) == IF o.tag = "Delete" THEN OldLines(a, o) ELSE NewLines(b, o)

EditLen(o) == IF o.tag = "Delete" THEN o.old_len ELSE o.new_len

RECURSIVE shift_diff_ops_up(_, _, _, _)
shift_diff_ops_up(a, b, ops, p) ==
    IF p = 0 THEN [ops |-> ops, p |-> p]
    ELSE
    LET this == At(ops, p)
        prev == At(ops, p - 1)
    IN
    IF prev.tag = "Equal"
    THEN LET k == common_suffix_len(OldLines(a, prev), EditLines(a, b, this))
         IN IF k > 0
            THEN LET o1 == IF p + 1 < Len(ops) /\ At(ops, p + 1).tag = "Equal"
                           THEN SetAt(ops, p + 1, grow_left(At(ops, p + 1), k))
                           ELSE InsertAt(ops, p + 1,
                                    IF this.tag = "Delete"
                                    THEN EqualOp(old_end(this) - k, new_end(prev) - k, k)
                                    ELSE EqualOp(old_end(prev) - k, new_end(this) - k, k))
                     o2 == SetAt(o1, p, shift_left(At(o1, p), k))
                     o3 == SetAt(o2, p - 1, shrink_left(At(o2, p - 1), k))
                 IN IF is_empty(At(o3, p - 1))
                    THEN shift_diff_ops_up(a, b, RemoveAt(o3, p - 1), p - 1)
                    ELSE shift_diff_ops_up(a, b, o3, p)
            ELSE IF is_empty(prev)
                 THEN shift_diff_ops_up(a, b, RemoveAt(ops, p - 1), p - 1)
                 ELSE [ops |-> ops, p |-> p]
    ELSE IF prev.tag # this.tag
    THEN \* swap the Delete and the Insert
         shift_diff_ops_up(a, b, SetAt(SetAt(ops, p - 1, this), p, prev), p - 1)
    ELSE \* merge the two ranges
         shift_diff_ops_up(a, b,
             RemoveAt(SetAt(ops, p - 1, grow_right(prev, EditLen(this))), p), p - 1)

RECURSIVE shift_diff_ops_down(_, _, _, _)
shift_diff_ops_down(a, b, ops, p) ==
    IF p + 1 >= Len(ops) THEN [ops |-> ops, p |-> p]
    ELSE
    LET this == At(ops, p)
        next == At(ops, p + 1)
    IN
    IF next.tag = "Equal"
    THEN LET k == common_prefix_len(OldLines(a, next), EditLines(a, b, this))
         IN IF k > 0
            THEN LET grown == p >= 1 /\ At(ops, p - 1).tag = "Equal"
                     o1 == IF grown
                           THEN SetAt(ops, p - 1, grow_right(At(ops, p - 1), k))
                           ELSE InsertAt(ops, p,
                                    IF this.tag = "Delete"
                                    THEN EqualOp(this.old_index, next.new_index, k)
                                    ELSE EqualOp(next.old_index, this.new_index, k))
                     q  == IF grown THEN p ELSE p + 1
                     o2 == SetAt(o1, q, shift_right(At(o1, q), k))
                     o3 == SetAt(o2, q + 1, shrink_right(At(o2, q + 1), k))
                 IN IF is_empty(At(o3, q + 1))
                    THEN shift_diff_ops_down(a, b, RemoveAt(o3, q + 1), q)
                    ELSE shift_diff_ops_down(a, b, o3, q)
            ELSE IF is_empty(next)
                 THEN shift_diff_ops_down(a, b, RemoveAt(ops, p + 1), p)
                 ELSE [ops |-> ops, p |-> p]
    ELSE IF next.tag # this.tag
    THEN shift_diff_ops_down(a, b, SetAt(SetAt(ops, p, next), p + 1, this), p + 1)
    ELSE shift_diff_ops_down(a, b,
             RemoveAt(SetAt(ops, p, grow_right(this, EditLen(next))), p + 1), p)

\* one pass of cleanup_diff_ops over the ops tagged `tag`
RECURSIVE CompactPass(_, _, _, _, _)
CompactPass(a, b, ops, pointer, tag) ==
    IF pointer >= Len(ops) THEN ops
    ELSE IF At(ops, pointer).tag = tag
    THEN LET up   == shift_diff_ops_up(a, b, ops, pointer)
             down == shift_diff_ops_down(a, b, up.ops, up.p)
         IN CompactPass(a, b, down.ops, down.p + 1, tag)
    ELSE CompactPass(a, b, ops, pointer + 1, tag)

cleanup_diff_ops(a, b, ops) ==
    CompactPass(a, b, CompactPass(a, b, ops, 0, "Delete"), 0, "Insert")

\* Replace hook: adjacent Equal ops are joined, and the Deletes and Inserts
\* between two Equal ops become one Delete, one Insert or one Replace.
\* mutant of FlushDelIns: a Delete with a pending Insert drops the Insert
FlushDelOnly(del, ins) == IF del # <<>> THEN del ELSE ins

FlushDelIns(del, ins) ==
    IF del # <<>>
    THEN IF ins # <<>>
         THEN <<ReplaceOp(del[1].old_index, del[1].old_len, ins[1].new_index, ins[1].new_len)>>
         ELSE del
    ELSE ins

RECURSIVE ReplaceHook(_, _, _, _)
ReplaceHook(ops, eq, del, ins) ==
    IF ops = <<>> THEN eq \o FlushDelIns(del, ins)
    ELSE LET o == Head(ops)
         IN IF o.tag = "Equal"
            THEN FlushDelIns(del, ins) \o
                 ReplaceHook(Tail(ops),
                     IF eq # <<>> THEN <<grow_right(eq[1], o.old_len)>> ELSE <<o>>,
                     <<>>, <<>>)
            ELSE IF o.tag = "Delete"
            THEN eq \o ReplaceHook(Tail(ops), <<>>,
                     IF del # <<>> THEN <<grow_right(del[1], o.old_len)>> ELSE <<o>>, ins)
            ELSE eq \o ReplaceHook(Tail(ops), <<>>, del,
                     IF ins # <<>> THEN <<grow_right(ins[1], o.new_len)>> ELSE <<o>>)

\* TextDiff::from_lines(old, new).ops(): Myers over the lines of both texts,
\* compacted, with replacements captured
from_lines(o, n) ==
    LET a == tokenize_lines(o)
        b == tokenize_lines(n)
    IN ReplaceHook(cleanup_diff_ops(a, b, myers_diff(a, b)), <<>>, <<>>, <<>>)


\* ------------------------------------------------------------ Hunk Grouper
\* context size passed to grouped_ops
ContextLines == 3

SaturatingSub(x, y) == IF x > y THEN x - y ELSE 0

\* mutant of TrimFirst: the first Equal op is kept whole
KeepFirst(ops, n) == ops

\* group_diff_ops: the first Equal op keeps its last n lines
TrimFirst(ops, n) ==
    IF ops # <<>> /\ ops[1].tag = "Equal"
    THEN LET offset == SaturatingSub(ops[1].old_len, n)
         IN [ops EXCEPT ![1] = EqualOp(@.old_index + offset, @.new_index + offset,
                                        @.old_len - offset)]
    ELSE ops

\* group_diff_ops: the last Equal op keeps its first n lines
TrimLast(ops, n) ==
    IF ops # <<>> /\ ops[Len(ops)].tag = "Equal"
    THEN [ops EXCEPT ![Len(ops)] = EqualOp(@.old_index, @.new_index,
                                           @.old_len - SaturatingSub(@.old_len, n))]
    ELSE ops

\* mutant of GroupLoop: a pending group of one Equal op is a group too
RECURSIVE GroupLoopKeepEqual(_, _, _, _)
GroupLoopKeepEqual(ops, n, pending_group, rv) ==
    IF ops = <<>>
    THEN IF pending_group = <<>> THEN rv ELSE Append(rv, pending_group)
    ELSE LET o == Head(ops)
         IN IF o.tag = "Equal" /\ o.old_len > n * 2
            THEN LET offset == SaturatingSub(o.old_len, n)
                 IN GroupLoopKeepEqual(Tail(ops), n,
                        <<EqualOp(o.old_index + offset, o.new_index + offset,
                                  o.old_len - offset)>>,
                        Append(rv, Append(pending_group,
                                          EqualOp(o.old_index, o.new_index, n))))
            ELSE GroupLoopKeepEqual(Tail(ops), n, Append(pending_group, o), rv)

\* mutant of GroupLoop: an Equal op of exactly 2n lines splits the group too
RECURSIVE GroupLoopSplitAt2n(_, _, _, _)
GroupLoopSplitAt2n(ops, n, pending_group, rv) ==
    IF ops = <<>>
    THEN IF pending_group = <<>> \/ (Len(pending_group) = 1 /\ pending_group[1].tag = "Equal")
         THEN rv
         ELSE Append(rv, pending_group)
    ELSE LET o == Head(ops)
         IN IF o.tag = "Equal" /\ o.old_len >= n * 2
            THEN LET offset == SaturatingSub(o.old_len, n)
                 IN GroupLoopSplitAt2n(Tail(ops), n,
                        <<EqualOp(o.old_index + offset, o.new_index + offset,
                                  o.old_len - offset)>>,
                        Append(rv, Append(pending_group,
                                          EqualOp(o.old_index, o.new_index, n))))
            ELSE GroupLoopSplitAt2n(Tail(ops), n, Append(pending_group, o), rv)

\* group_diff_ops: the loop over the ops; an Equal op longer than 2n ends the
\* pending group with its first n lines and starts the next with its last n
RECURSIVE GroupLoop(_, _, _, _)
GroupLoop(ops, n, pending_group, rv) ==
    IF ops = <<>>
    THEN IF pending_group = <<>> \/ (Len(pending_group) = 1 /\ pending_group[1].tag = "Equal")
         THEN rv
         ELSE Append(rv, pending_group)
    ELSE LET o == Head(ops)
         IN IF o.tag = "Equal" /\ o.old_len > n * 2
            THEN LET offset == SaturatingSub(o.old_len, n)
                 IN GroupLoop(Tail(ops), n,
                        <<EqualOp(o.old_index + offset, o.new_index + offset,
                                  o.old_len - offset)>>,
                        Append(rv, Append(pending_group,
                                          EqualOp(o.old_index, o.new_index, n))))
            ELSE GroupLoop(Tail(ops), n, Append(pending_group, o), rv)

group_diff_ops(ops, n) ==
    IF ops = <<>> THEN <<>>
    ELSE GroupLoop(TrimLast(TrimFirst(ops, n), n), n, <<>>, <<>>)

\* ---------------------------------------------------------------- Renderer
Change(tag, value) == [tag |-> tag, value |-> value]

\* TextDiff::iter_changes(op): Equal and Delete lines come from old, Insert
\* lines from new; a Replace gives its Deletes and then its Inserts
iter_changes(a, b, o) ==
    LET olds(tag) == [i \in 1..o.old_len |-> Change(tag, a[o.old_index + i])]
        news      == [i \in 1..o.new_len |-> Change("Insert", b[o.new_index + i])]
    IN IF o.tag = "Equal" THEN olds("Equal")
       ELSE IF o.tag = "Delete" THEN olds("Delete")
       ELSE IF o.tag = "Insert" THEN news
       ELSE olds("Delete") \o news

RECURSIVE ChangesOf(_, _, _)
ChangesOf(a, b, ops) ==
    IF ops = <<>> THEN <<>>
    ELSE iter_changes(a, b, Head(ops)) \o ChangesOf(a, b, Tail(ops))

\* mutant of sign: the signs of Delete and Insert are swapped
sign_swapped(tag) == IF tag = "Delete" THEN "+" ELSE IF tag = "Insert" THEN "-" ELSE " "

sign(tag) == IF tag = "Delete" THEN "-" ELSE IF tag = "Insert" THEN "+" ELSE " "

\* result.push_str(&format!("{}{}", sign, change.value()))
RECURSIVE RenderChanges(_)
RenderChanges(cs) ==
    IF cs = <<>> THEN <<>>
    ELSE <<sign(Head(cs).tag)>> \o Head(cs).value \o RenderChanges(Tail(cs))

Separator == <<".", ".", ".", NL>>

\* mutant of RenderGroups: the separator precedes the first group as well
RECURSIVE RenderGroupsSepFirst(_, _, _, _)
RenderGroupsSepFirst(a, b, gs, idx) ==
    IF gs = <<>> THEN <<>>
    ELSE Separator
         \o RenderChanges(ChangesOf(a, b, Head(gs)))
         \o RenderGroupsSepFirst(a, b, Tail(gs), idx + 1)

\* the loop of diff_files over the groups, idx counting from 0
RECURSIVE RenderGroups(_, _, _, _)
RenderGroups(a, b, gs, idx) ==
    IF gs = <<>> THEN <<>>
    ELSE (IF idx > 0 THEN Separator ELSE <<>>)
         \o RenderChanges(ChangesOf(a, b, Head(gs)))
         \o RenderGroups(a, b, Tail(gs), idx + 1)

render(o, n, gs) == RenderGroups(tokenize_lines(o), tokenize_lines(n), gs, 0)

\* ------------------------------------------------------------------ inputs
\* exhaustive family: every text of up to MaxLines lines over two lines,
\* with or without a final unterminated line
LineVocab == {<<"a", NL>>, <<"b", NL>>}

SmallTexts ==
    {Concat(ls) \o t : ls \in SeqsUpTo(LineVocab, MaxLines), t \in {<<>>, <<"a">>}}

\* numbered family: old is MaxGroupLines distinct lines; new is old with up to
\* three of its lines deleted, replaced by the line "..", or preceded by it;
\* the last line may also lose its terminator
Alphabet == <<"a", "b", "c", "d", "e", "f", "g", "h", "i", "j", "k", "l", "m",
              "n", "o", "p", "q", "r", "s", "t", "u", "v", "w">>

NumberedLine(i) == <<Alphabet[i], NL>>

Dots == <<".", ".", NL>>

EditKinds == {"del", "rep", "ins"}

Edited(i, kind) ==
    IF kind = "none" THEN NumberedLine(i)
    ELSE IF kind = "chop" THEN <<Alphabet[i]>>
    ELSE IF kind = "del" THEN <<>>
    ELSE IF kind = "rep" THEN Dots
    ELSE Dots \o NumberedLine(i)

NumberedOld == Concat([i \in 1..MaxGroupLines |-> NumberedLine(i)])

NumberedNew(i, k1, j, k2, k3) ==
    Concat([p \in 1..MaxGroupLines |->
               IF p = i THEN Edited(p, k1)
               ELSE IF p = j THEN Edited(p, k2)
               ELSE IF p = MaxGroupLines THEN Edited(p, k3)
               ELSE NumberedLine(p)])

\* the example of the diff's documentation
ExampleOld == <<"a", NL, "b", NL, "c", NL>>
ExampleNew == <<"a", NL, "x", NL, "c", NL>>

DiffInputs ==
    (SmallTexts \X SmallTexts)
    \cup {<<ExampleOld, ExampleNew>>}
    \cup {<<NumberedOld, NumberedNew(ij[1], k1, ij[2], k2, k3)>> :
             ij \in {x \in (1..MaxGroupLines) \X (1..MaxGroupLines) : x[1] <= x[2]},
             k1 \in EditKinds, k2 \in EditKinds, k3 \in {"none", "rep", "chop"}}

EditChars == {"a", "b"}

FooBarFoo == <<"f", "o", "o", " ", "b", "a", "r", " ", "f", "o", "o">>

EditInputs ==
    (SeqsUpTo(EditChars, MaxContentLen) \X SeqsUpTo(EditChars, MaxPatLen)
        \X SeqsUpTo(EditChars, MaxPatLen))
    \cup {<<FooBarFoo, <<"f", "o", "o">>, <<"b", "a", "z">>>>}

\* ----------------------------------------------------------- state machine
\* The module keeps no state between calls: a behaviour is one call.  fn and
\* the arguments are what the caller passes (borrowed, so the call leaves them
\* alone); diff, groups and result are the locals of diff_files and what it
\* returns; ret is what apply_edit returns.
NoResult == [tag |-> "None", exc |-> "", msg |-> "", value |-> <<>>]

InitDiff ==
    /\ fn = "diff_files"
    /\ \E i \in DiffInputs : old = i[1] /\ new = i[2]
    /\ content = <<>> /\ old_content = <<>> /\ new_content = <<>>

InitEdit ==
    /\ fn = "apply_edit"
    /\ \E e \in EditInputs : content = e[1] /\ old_content = e[2] /\ new_content = e[3]
    /\ old = <<>> /\ new = <<>>

Init ==
    /\ pc = "call"
    /\ diff = <<>> /\ groups = <<>> /\ result = <<>>
    /\ ret = NoResult
    /\ (InitDiff \/ InitEdit)

diff_files ==
    /\ pc = "call" /\ fn = "diff_files"
    /\ diff' = from_lines(old, new)
    /\ groups' = group_diff_ops(diff', ContextLines)
    /\ result' = render(old, new, groups')
    /\ pc' = "done"
    /\ UNCHANGED <<fn, old, new, content, old_content, new_content, ret>>

ApplyEdit ==
    /\ pc = "call" /\ fn = "apply_edit"
    /\ ret' = apply_edit(content, old_content, new_content)
    /\ pc' = "done"
    /\ UNCHANGED <<fn, old, new, diff, groups, result, content, old_content, new_content>>

Next == diff_files \/ ApplyEdit

Spec == Init /\ [][Next]_vars

\* ================================================================== claims
Done(f) == pc = "done" /\ fn = f

\* pat occurs in s at offset i (0-based)
OccursAt(s, pat, i) ==
    /\ i >= 0 /\ i + Len(pat) <= Len(s)
    /\ \A j \in 1..Len(pat) : s[i + j] = pat[j]

Occurs(s, pat) == \E i \in 0..Len(s) : OccursAt(s, pat, i)

\* C1: when content does not contain old_content, apply_edit fails with the one
\* error kind and its message, returns no text, and leaves content as it was.
C1_NotFoundFailure ==
    [][(pc = "call" /\ fn = "apply_edit" /\ pc' = "done"
          /\ ~Occurs(content, old_content))
       => (/\ ret'.tag = "Err"
           /\ ret'.exc = "PyValueError"
           /\ ret'.msg = "Could not find content to replace"
           /\ ret'.value = <<>>
           /\ content' = content)]_vars

C1_Witness ==
    /\ Done("apply_edit") /\ ret.tag = "Err"
    /\ content # <<>> /\ Len(old_content) <= Len(content)

\* C2: when content contains old_content, apply_edit returns
\* prefix + new_content + suffix, where prefix + old_content + suffix = content
\* and prefix ends at the lowest offset old_content occurs at; the result is
\* len(content) - len(old_content) + len(new_content) long, and
\* apply_edit("foo bar foo", "foo", "baz") = "baz bar foo".
C2_FirstOccurrenceReplaced ==
    (Done("apply_edit") /\ Occurs(content, old_content)) =>
        /\ ret.tag = "Ok"
        /\ \E i \in 0..Len(content) :
              LET prefix == Slice(content, 0, i)
                  suffix == Slice(content, i + Len(old_content), Len(content))
              IN /\ OccursAt(content, old_content, i)
                 /\ \A j \in 0..(i - 1) : ~OccursAt(content, old_content, j)
                 /\ prefix \o old_content \o suffix = content
                 /\ ret.value = prefix \o new_content \o suffix
        /\ Len(ret.value) = Len(content) - Len(old_content) + Len(new_content)
        /\ (content = FooBarFoo =>
               ret.value = <<"b", "a", "z", " ", "b", "a", "r", " ", "f", "o", "o">>)

C2_Witness ==
    /\ Done("apply_edit") /\ ret.tag = "Ok"
    /\ old_content # <<>> /\ new_content # old_content
    /\ \E i, j \in 0..Len(content) :
          i < j /\ OccursAt(content, old_content, i) /\ OccursAt(content, old_content, j)

\* C10: apply_edit with an empty old_content never fails, the empty content
\* included, and returns new_content followed by the whole of content.
C10_EmptyOldContent ==
    (Done("apply_edit") /\ old_content = <<>>) =>
        (ret.tag = "Ok" /\ ret.value = new_content \o content)

C10_Witness ==
    /\ Done("apply_edit") /\ old_content = <<>> /\ content = <<>>
    /\ new_content # <<>> /\ ret.tag = "Ok"


\* ------------------------------------------------------- claims on the diff
\* the two line sequences and the alignment's change sequence of this call
A == tokenize_lines(old)
B == tokenize_lines(new)
Changes == ChangesOf(A, B, diff)

IsOldSide(c) == c.tag \in {"Equal", "Delete"}
IsNewSide(c) == c.tag \in {"Equal", "Insert"}
IsEdit(c) == c.tag \in {"Insert", "Delete"}

RECURSIVE Values(_)
Values(cs) == IF cs = <<>> THEN <<>> ELSE Head(cs).value \o Values(Tail(cs))

\* length of a longest common subsequence, row by row
RECURSIVE LcsRow(_, _, _, _)
LcsRow(prev, x, b, acc) ==
    IF Len(acc) > Len(b) THEN acc
    ELSE LET j == Len(acc)
         IN LcsRow(prev, x, b,
                Append(acc, IF x = b[j] THEN prev[j] + 1 ELSE Max(prev[j + 1], acc[j])))

RECURSIVE LcsRows(_, _, _)
LcsRows(a, b, row) ==
    IF a = <<>> THEN row[Len(b) + 1]
    ELSE LcsRows(Tail(a), b, LcsRow(row, Head(a), b, <<0>>))

LCS(a, b) == LcsRows(a, b, [j \in 1..(Len(b) + 1) |-> 0])

\* C3: diff(x, x) is the empty string for every text x: no group, hence no
\* context line and no separator.
C3_Identity ==
    (Done("diff_files") /\ old = new) => (groups = <<>> /\ result = <<>>)

C3_Witness ==
    /\ Done("diff_files") /\ old = new /\ Len(A) > ContextLines
    /\ result = <<>>

\* C4: the Equal and Delete lines of the change sequence, in order, are old, and
\* its Equal and Insert lines are new, terminators included; an empty old gives
\* only Insert changes and an empty new only Delete changes.
C4_Reconstruction ==
    Done("diff_files") =>
        /\ Values(SelectSeq(Changes, IsOldSide)) = old
        /\ Values(SelectSeq(Changes, IsNewSide)) = new
        /\ (old = <<>> => \A i \in 1..Len(Changes) : Changes[i].tag = "Insert")
        /\ (new = <<>> => \A i \in 1..Len(Changes) : Changes[i].tag = "Delete")

C4_Witness ==
    /\ Done("diff_files")
    /\ \E i, j \in 1..Len(diff) : diff[i].tag = "Replace" /\ diff[j].tag = "Equal"
    /\ old # <<>> /\ old[Len(old)] # NL
    /\ Values(SelectSeq(Changes, IsNewSide)) = new

\* C5: the alignment is minimal: its Insert and Delete changes number
\* len(A) + len(B) - 2 * LCS(A, B).
C5_MinimalAlignment ==
    Done("diff_files") =>
        Len(SelectSeq(Changes, IsEdit)) = Len(A) + Len(B) - 2 * LCS(A, B)

C5_Witness ==
    /\ Done("diff_files")
    /\ Cardinality({i \in 1..Len(diff) : diff[i].tag # "Equal"}) >= 2
    /\ LCS(A, B) >= 2
    /\ Len(SelectSeq(Changes, IsEdit)) >= 3


\* the changes a group covers, and the characters their rendering takes
GroupChanges(g) == ChangesOf(A, B, groups[g])

RECURSIVE Chars(_)
Chars(cs) == IF cs = <<>> THEN 0 ELSE 1 + Len(Head(cs).value) + Chars(Tail(cs))

\* offset in result at which the rendering of group g starts
RECURSIVE GroupOffset(_)
GroupOffset(g) ==
    IF g = 1 THEN 0
    ELSE GroupOffset(g - 1) + Chars(GroupChanges(g - 1)) + Len(Separator)

\* the lines of the output, and those that are the separator line
OutLines == tokenize_lines(result)
SeparatorLines == {i \in 1..Len(OutLines) : OutLines[i] = Separator}

\* C6: the output has a separator line "..." iff there are at least two groups:
\* one "...\n" right before every group but the first, groups - 1 in all, none
\* before the first group, none after the last and none without groups.
C6_Separators ==
    Done("diff_files") =>
        /\ (SeparatorLines # {}) <=> (Len(groups) >= 2)
        /\ Cardinality(SeparatorLines) = IF groups = <<>> THEN 0 ELSE Len(groups) - 1
        /\ \A g \in 2..Len(groups) :
              LET at == GroupOffset(g) - Len(Separator)
              IN /\ Slice(result, at, at + Len(Separator)) = Separator
                 /\ at > 0 /\ result[at] = NL
        /\ (groups # <<>> => /\ OutLines[1] # Separator
                             /\ OutLines[Len(OutLines)] # Separator)
        /\ (groups = <<>> => result = <<>>)

C6_Witness ==
    /\ Done("diff_files") /\ Len(groups) = 3
    /\ Cardinality(SeparatorLines) = 2
    /\ \E i \in 1..Len(Changes) : Changes[i].value = Dots

\* the group(s) an op of the alignment was put in
InGroup(o, g) == \E p \in 1..Len(groups[g]) : groups[g][p] = o
SameGroup(x, y) == \E g \in 1..Len(groups) : InGroup(x, g) /\ InGroup(y, g)

\* Equal ops with a changed run on either side
Gaps == {i \in 2..(Len(diff) - 1) :
            diff[i].tag = "Equal" /\ diff[i - 1].tag # "Equal" /\ diff[i + 1].tag # "Equal"}

ChangedRuns == {i \in 1..Len(diff) : diff[i].tag # "Equal"}

\* C7: with context 3, two consecutive changed runs are in the same group
\* exactly when at most 6 Equal lines lie between them and in separate groups
\* exactly when more than 6 do; between two consecutive groups at least one
\* Equal line is elided; two changes 10 unchanged lines apart give two groups.
C7_MergeThreshold ==
    Done("diff_files") =>
        /\ \A i \in 1..(Len(diff) - 1) : (diff[i].tag = "Equal") # (diff[i + 1].tag = "Equal")
        /\ \A i \in ChangedRuns : \E g \in 1..Len(groups) : InGroup(diff[i], g)
        /\ \A i \in Gaps :
              SameGroup(diff[i - 1], diff[i + 1]) <=> (diff[i].old_len <= 6)
        /\ \A g \in 1..(Len(groups) - 1) :
              LET last  == groups[g][Len(groups[g])]
                  first == groups[g + 1][1]
              IN /\ last.tag = "Equal" /\ first.tag = "Equal"
                 /\ first.old_index - old_end(last) >= 1
                 /\ first.new_index - new_end(last) = first.old_index - old_end(last)
        /\ ((Cardinality(ChangedRuns) = 2 /\ \E i \in Gaps : diff[i].old_len = 10)
               => Len(groups) = 2)

C7_Witness ==
    /\ Done("diff_files")
    /\ \E i, j \in Gaps : diff[i].old_len = 6 /\ diff[j].old_len = 7
    /\ Len(groups) = 2

\* first and last changed op of a group, as positions in the group
FirstEdit(gs) == CHOOSE p \in 1..Len(gs) : gs[p].tag # "Equal" /\ \A q \in 1..(p - 1) : gs[q].tag = "Equal"
LastEdit(gs) == CHOOSE p \in 1..Len(gs) : gs[p].tag # "Equal" /\ \A q \in (p + 1)..Len(gs) : gs[q].tag = "Equal"

\* position in the alignment of an op of a group
DiffIndex(o) == CHOOSE i \in 1..Len(diff) : diff[i] = o

\* Equal lines right before / after op i of the alignment
AvailableBefore(i) == IF i > 1 /\ diff[i - 1].tag = "Equal" THEN diff[i - 1].old_len ELSE 0
AvailableAfter(i) == IF i < Len(diff) /\ diff[i + 1].tag = "Equal" THEN diff[i + 1].old_len ELSE 0

LeadingContext(gs) == IF gs[1].tag = "Equal" THEN gs[1].old_len ELSE 0
TrailingContext(gs) == IF gs[Len(gs)].tag = "Equal" THEN gs[Len(gs)].old_len ELSE 0

\* C8: every group has an Insert or Delete line, and shows min(3, available)
\* Equal lines before its first changed line and after its last one, those
\* next to the change: never more than 3, fewer only at the ends of the text.
C8_ContextLines ==
    Done("diff_files") =>
        \A g \in 1..Len(groups) :
            LET gs == groups[g]
            IN /\ \E p \in 1..Len(gs) : gs[p].tag # "Equal"
               /\ \E i \in 1..Len(diff) : diff[i] = gs[FirstEdit(gs)]
               /\ \E i \in 1..Len(diff) : diff[i] = gs[LastEdit(gs)]
               /\ FirstEdit(gs) <= 2 /\ LastEdit(gs) >= Len(gs) - 1
               /\ LeadingContext(gs) = Min(3, AvailableBefore(DiffIndex(gs[FirstEdit(gs)])))
               /\ TrailingContext(gs) = Min(3, AvailableAfter(DiffIndex(gs[LastEdit(gs)])))
               /\ (gs[1].tag = "Equal" =>
                      old_end(gs[1]) = old_end(diff[DiffIndex(gs[FirstEdit(gs)]) - 1]))
               /\ (gs[Len(gs)].tag = "Equal" =>
                      gs[Len(gs)].old_index = diff[DiffIndex(gs[LastEdit(gs)]) + 1].old_index)

C8_Witness ==
    /\ Done("diff_files")
    /\ \E g \in 1..Len(groups) :
          /\ LeadingContext(groups[g]) = 3
          /\ AvailableBefore(DiffIndex(groups[g][FirstEdit(groups[g])])) > 3
          /\ TrailingContext(groups[g]) \in 1..2


\* the sign the output gives a change
SignOf(c) == CASE c.tag = "Delete" -> "-" [] c.tag = "Insert" -> "+" [] c.tag = "Equal" -> " "

\* the changes of all groups, in order
RECURSIVE AllGroupChanges(_)
AllGroupChanges(g) ==
    IF g > Len(groups) THEN <<>> ELSE GroupChanges(g) \o AllGroupChanges(g + 1)

\* C9: for each group in order, diff emits every covered change once, in
\* alignment order, as its sign ('-' Delete, '+' Insert, ' ' Equal) followed by
\* the line's exact content with its terminator, no newline added or removed;
\* old = "a\nb\nc\n", new = "a\nx\nc\n" renders as " a\n-b\n+x\n c\n".
C9_Rendering ==
    Done("diff_files") =>
        /\ \A g \in 1..Len(groups) :
              LET cs == GroupChanges(g)
              IN /\ \A k \in 1..Len(cs) :
                       LET at == GroupOffset(g) + Chars(SubSeq(cs, 1, k - 1))
                       IN /\ result[at + 1] = SignOf(cs[k])
                          /\ Slice(result, at + 1, at + 1 + Len(cs[k].value)) = cs[k].value
                 /\ \E s \in 1..Len(Changes) : SubSeq(Changes, s, s + Len(cs) - 1) = cs
        /\ Len(result) = IF groups = <<>> THEN 0
                         ELSE GroupOffset(Len(groups)) + Chars(GroupChanges(Len(groups)))
        /\ SelectSeq(AllGroupChanges(1), IsEdit) = SelectSeq(Changes, IsEdit)
        /\ ((old = ExampleOld /\ new = ExampleNew) =>
               result = <<" ", "a", NL, "-", "b", NL, "+", "x", NL, " ", "c", NL>>)

C9_Witness ==
    /\ Done("diff_files") /\ old = ExampleOld /\ new = ExampleNew
    /\ result = <<" ", "a", NL, "-", "b", NL, "+", "x", NL, " ", "c", NL>>


====
